---- MODULE Spec2Model ----
(***************************************************************************)
(* A model of the calendar worker of dsv-tutor-tools: the checks of         *)
(* handleCalendar, the session cache and login handshake                    *)
(* (handledningLogin), the staleness retry and the schedule extraction of   *)
(* getPlannedSchedules.                                                     *)
(*                                                                          *)
(* The specifications share the variables of the module:                    *)
(*   Spec         requests handled by handleCalendar and running            *)
(*                getPlannedSchedules against a portal, an identity         *)
(*                provider and the KV session cache, served one after       *)
(*                another;                                                  *)
(*   FairSpec     Spec, with every await of a request returning;            *)
(*   LoginSpec    the same requests with the clock standing still, against  *)
(*                servers that set cookies on any response and declare      *)
(*                any form action;                                          *)
(*   ConcSpec     two requests served interleaved;                          *)
(*   TwinSpec     two requests for the same identity served interleaved;    *)
(*   PwSpec       two requests for the same username, with the same or      *)
(*                with different passwords, served interleaved;             *)
(*   CredSpec     credential pairs encrypted by generate_calendar_url and   *)
(*                decrypted by the worker;                                  *)
(*   ExtractSpec  the parsing part of getPlannedSchedules, and generateICS  *)
(*                on its result, applied to every page of a bounded family  *)
(*                of schedule pages.                                        *)
(***************************************************************************)
EXTENDS Integers, Sequences, FiniteSets, TLC

(***************************************************************************)
(* Text.  Cell texts that the code inspects character by character are     *)
(* sequences of one-character strings.                                      *)
(***************************************************************************)
Digits == {"0", "1", "2", "3", "4", "5", "6", "7", "8", "9"}

DigitVal(c) ==
    CASE c = "0" -> 0 [] c = "1" -> 1 [] c = "2" -> 2 [] c = "3" -> 3
      [] c = "4" -> 4 [] c = "5" -> 5 [] c = "6" -> 6 [] c = "7" -> 7
      [] c = "8" -> 8 [] c = "9" -> 9

RECURSIVE ParseInt(_)
\* parseInt / Number of a string of decimal digits
ParseInt(s) ==
    IF Len(s) = 0 THEN 0
    ELSE ParseInt(SubSeq(s, 1, Len(s) - 1)) * 10 + DigitVal(s[Len(s)])

\* /^\d{4}-\d{2}-\d{2}$/.test(dateStr)
IsDateStr(s) ==
    /\ Len(s) = 10
    /\ \A i \in {1, 2, 3, 4, 6, 7, 9, 10} : s[i] \in Digits
    /\ s[5] = "-"
    /\ s[8] = "-"

\* days between 1970-01-01 and the civil date y-m-d (m in 1..12)
DaysFromCivil(y, m, d) ==
    LET yy  == IF m <= 2 THEN y - 1 ELSE y
        era == yy \div 400
        yoe == yy - era * 400
        mp  == IF m > 2 THEN m - 3 ELSE m + 9
        doy == (153 * mp + 2) \div 5 + d - 1
        doe == yoe * 365 + yoe \div 4 - yoe \div 100 + doy
    IN  era * 146097 + doe - 719468

\* new Date(year, monthIndex, day, hour, minute).getTime(), in minutes;
\* out-of-range fields roll over as in JavaScript
MakeTime(year, monthIndex, day, hour, minute) ==
    LET y == year + (monthIndex \div 12)
        m == (monthIndex % 12) + 1
    IN  (DaysFromCivil(y, m, 1) + day - 1) * 1440 + hour * 60 + minute

(***************************************************************************)
(* The schedule page.  A page is the schedule table: its header row and    *)
(* the rows below it.  A row is either a schedule row (its td cells: list  *)
(* type, date, time, courses, comments) or a marker row whose td[colspan]  *)
(* cell text is given as the pieces between occurrences of "Mina tider",   *)
(* each piece being the time ranges the pattern H:MM-H:MM finds in it.     *)
(***************************************************************************)
MaxRows == 3

NoMatch == [h1 |-> <<>>, m1 |-> <<>>, h2 |-> <<>>, m2 |-> <<>>]

T9 == [h1 |-> <<"9">>, m1 |-> <<"0", "0">>, h2 |-> <<"1", "0">>, m2 |-> <<"0", "0">>]
T09 == [h1 |-> <<"0", "9">>, m1 |-> <<"0", "0">>, h2 |-> <<"1", "0">>, m2 |-> <<"0", "0">>]
T10 == [h1 |-> <<"1", "0">>, m1 |-> <<"0", "0">>, h2 |-> <<"1", "1">>, m2 |-> <<"0", "0">>]
\* 9:00-11:00, a range that starts with T9 and ends later
T9L == [h1 |-> <<"9">>, m1 |-> <<"0", "0">>, h2 |-> <<"1", "1">>, m2 |-> <<"0", "0">>]

D1 == <<"2", "0", "2", "4", "-", "0", "5", "-", "0", "1">>
D2 == <<"2", "0", "2", "4", "-", "0", "5", "-", "0", "2">>

DateTexts == {D1, D2}
RowTimeTexts == {T9, T09, T10}
TimeTexts == RowTimeTexts \cup {T9L}
CellCounts == {3, 4}

ScheduleRows ==
    [kind : {"row"}, ncells : CellCounts, listType : {"Handledning"},
     dateStr : DateTexts, timeMatch : RowTimeTexts,
     courseCodes : {<<>>}, comments : {""}, listId : {101}]

MarkerRows ==
    [kind : {"mina"},
     segs : {<<<<>>, <<T9>>>>, <<<<>>, <<T10>>>>, <<<<T10>>, <<T9>>>>, <<<<T9>>>>,
             <<<<>>, <<T9>>, <<T10>>>>, <<<<>>, <<T9, T9L>>>>}]

\* a row of another list (its link carries another listid) at 2024-05-01 10:00
OtherListRow ==
    [kind |-> "row", ncells |-> 4, listType |-> "Handledning",
     dateStr |-> D1, timeMatch |-> T10,
     courseCodes |-> <<>>, comments |-> "", listId |-> 102]

\* "2024-5-1": a date cell that /^\d{4}-\d{2}-\d{2}$/ rejects
BadDate == <<"2", "0", "2", "4", "-", "5", "-", "1">>

\* a row whose date cell fails the date pattern
BadDateRow ==
    [kind |-> "row", ncells |-> 4, listType |-> "Handledning",
     dateStr |-> BadDate, timeMatch |-> T10,
     courseCodes |-> <<>>, comments |-> "", listId |-> 101]

\* a row whose time cell holds no H:MM-H:MM range
NoTimeRow ==
    [kind |-> "row", ncells |-> 4, listType |-> "Handledning",
     dateStr |-> D1, timeMatch |-> NoMatch,
     courseCodes |-> <<>>, comments |-> "", listId |-> 101]

\* a row of list 101 at 2024-05-01 9:00-11:00
LongRow ==
    [kind |-> "row", ncells |-> 4, listType |-> "Handledning",
     dateStr |-> D1, timeMatch |-> T9L,
     courseCodes |-> <<>>, comments |-> "", listId |-> 101]

Rows == ScheduleRows \cup {OtherListRow, BadDateRow, NoTimeRow, LongRow} \cup MarkerRows

Headers == {[datum |-> TRUE, tid |-> TRUE], [datum |-> TRUE, tid |-> FALSE]}

\* the pages of n rows
Pages(n) == [header : Headers, rows : [1..n -> Rows]]

\* $(row).find('td').length
CellCount(r) == IF r.kind = "row" THEN r.ncells ELSE 1

\* a key that matches on the time range alone
TimeKeyWithoutDate(dateStr, match) ==
    match.h1 \o <<":">> \o match.m1 \o <<"-">> \o match.h2 \o <<":">> \o match.m2

\* `${dateStr}:${match[1]}:${match[2]}-${match[3]}:${match[4]}`
TimeKey(dateStr, match) ==
    dateStr \o <<":">> \o match.h1 \o <<":">> \o match.m1 \o <<"-">>
            \o match.h2 \o <<":">> \o match.m2

SeqRange(s) == {s[i] : i \in 1..Len(s)}

\* the td[colspan] scan that builds minaTiderKeys
MinaTiderKeys(page) ==
    LET rows == page.rows
        Marked(i) == rows[i].kind = "mina" /\ Len(rows[i].segs) >= 2
        HasDateRow(i) == i > 1 /\ CellCount(rows[i - 1]) >= 3
    IN  {TimeKey(rows[i - 1].dateStr, m) :
            <<i, m>> \in {<<j, t>> \in (1..Len(rows)) \X TimeTexts :
                            /\ Marked(j)
                            /\ HasDateRow(j)
                            /\ t \in SeqRange(rows[j].segs[2])}}

\* the guards of the row loop, up to the minaTiderKeys test
RowAdmitted(r, keys) ==
    /\ r.kind = "row"
    /\ ~(CellCount(r) < 4)
    /\ IsDateStr(r.dateStr)
    /\ r.timeMatch # NoMatch
    /\ TimeKey(r.dateStr, r.timeMatch) \in keys

\* the record pushed for row j; src_row records which row built it
RowRecord(r, j) ==
    LET year  == ParseInt(SubSeq(r.dateStr, 1, 4))
        month == ParseInt(SubSeq(r.dateStr, 6, 7))
        day   == ParseInt(SubSeq(r.dateStr, 9, 10))
    IN  [course     |-> IF Len(r.courseCodes) > 0 THEN r.courseCodes
                        ELSE <<r.listType>>,
         start_time |-> MakeTime(year, month - 1, day,
                                 ParseInt(r.timeMatch.h1), ParseInt(r.timeMatch.m1)),
         end_time   |-> MakeTime(year, month - 1, day,
                                 ParseInt(r.timeMatch.h2), ParseInt(r.timeMatch.m2)),
         location   |-> r.comments,
         list_id    |-> r.listId,
         list_type  |-> r.listType,
         src_row    |-> j]

RECURSIVE RowLoopAborting(_, _, _)
\* a row loop that ends the pass at the first row it cannot use
RowLoopAborting(rows, keys, j) ==
    IF j > Len(rows) THEN <<>>
    ELSE IF RowAdmitted(rows[j], keys)
         THEN <<RowRecord(rows[j], j)>> \o RowLoopAborting(rows, keys, j + 1)
         ELSE <<>>

RECURSIVE RowLoop(_, _, _)
RowLoop(rows, keys, j) ==
    IF j > Len(rows) THEN <<>>
    ELSE IF RowAdmitted(rows[j], keys)
         THEN <<RowRecord(rows[j], j)>> \o RowLoop(rows, keys, j + 1)
         ELSE RowLoop(rows, keys, j + 1)

\* the table loop: only a table whose header has Datum and Tid is parsed
ParseRows(page, keys) ==
    IF ~page.header.datum \/ ~page.header.tid THEN <<>>
    ELSE RowLoop(page.rows, keys, 1)

\* `${list_id}-${start_time.getTime()}-${end_time.getTime()}`
DedupKey(s) == <<s.list_id, s.start_time, s.end_time>>

\* a pass that drops nothing
KeepAll(schedules) == schedules

RECURSIVE DedupLoop(_, _)
DedupLoop(schedules, seen) ==
    IF Len(schedules) = 0 THEN <<>>
    ELSE LET s == Head(schedules)
         IN  IF DedupKey(s) \notin seen
             THEN <<s>> \o DedupLoop(Tail(schedules), seen \cup {DedupKey(s)})
             ELSE DedupLoop(Tail(schedules), seen)

Deduplicate(schedules) == DedupLoop(schedules, {})

\* the parsing part of getPlannedSchedules
ExtractSchedules(page) == Deduplicate(ParseRows(page, MinaTiderKeys(page)))

(***************************************************************************)
(* The worker.  Requests run getPlannedSchedules; each await of the code   *)
(* (a KV read, a fetch) ends one action and the arrival of its result      *)
(* starts the next.  Time is in seconds.                                    *)
(***************************************************************************)
CACHE_DURATION == 3600
MAX_REDIRECTS == 10

NumReqs == 2
MaxTok == 2
MaxTime == 3600

Reqs == 1..NumReqs
Users == {"alice", "bob"}
Tokens == 1..MaxTok
CookieNames == {"JSESSIONID"}
TickSteps == {CACHE_DURATION - 1, CACHE_DURATION}

NoEntry == [cookie |-> 0, timestamp |-> 0]
EmptyJar == [n \in CookieNames |-> 0]
NoCookies == [n \in {} |-> 0]
NoResult == [ok |-> FALSE, records |-> <<>>]
NoRefresh == [token |-> 0, at |-> 0]

\* a jar replaced by the cookies of the last response
MergeCookiesReplacing(jar, set) ==
    [n \in CookieNames |-> IF n \in DOMAIN set THEN set[n] ELSE 0]

\* Object.assign(cookies, extractCookies(response))
MergeCookies(jar, set) ==
    [n \in CookieNames |-> IF n \in DOMAIN set THEN set[n] ELSE jar[n]]

\* the page the identity provider shows instead of the schedule
EmptyPage == [header |-> [datum |-> FALSE, tid |-> FALSE], rows |-> <<>>]

LoginPage == [su |-> TRUE, login |-> TRUE, page |-> EmptyPage]

SamplePage ==
    [header |-> [datum |-> TRUE, tid |-> TRUE],
     rows |-> <<[kind |-> "row", ncells |-> 4, listType |-> "Handledning",
                 dateStr |-> D1, timeMatch |-> T10, courseCodes |-> <<>>,
                 comments |-> "", listId |-> 101],
                [kind |-> "mina", segs |-> <<<<>>, <<T10>>>>]>>]

SchedulePage == [su |-> FALSE, login |-> FALSE, page |-> SamplePage]

Bodies == {LoginPage, SchedulePage}

(***************************************************************************)
(* The HTTP boundary: handleCalendar and the credential envelope.  The     *)
(* auth parameter is iv:authTag:ciphertext; an envelope records how many   *)
(* parts the parameter splits into, the key it was sealed with and its     *)
(* plaintext as the fields between the colons of the plaintext.  SHA-256   *)
(* is taken to be free of collisions.                                       *)
(***************************************************************************)
Absent == ""

\* url.searchParams.get of a parameter the URL does not carry
NoDigest == <<>>
NoAuth == [parts |-> 0, key |-> Absent, plaintext |-> <<>>]

Envelope(key, plaintext) == [parts |-> 3, key |-> key, plaintext |-> plaintext]

GoodAuth == Envelope("k1", <<"alice", "pw">>)
OtherAuth == Envelope("k1", <<"bob", "pw">>)
\* an envelope for alice that carries another password than GoodAuth
StaleAuth == Envelope("k1", <<"alice", "old">>)

AuthParams ==
    {NoAuth,
     GoodAuth,
     Envelope("k2", <<"alice", "pw">>),
     Envelope("k1", <<"alice">>),
     [parts |-> 2, key |-> "k1", plaintext |-> <<"alice", "pw">>]}

\* the hex SHA-256 of secret + encryptedAuth
Sha256Hex(secret, encryptedAuth) == <<"sha256", secret, encryptedAuth>>

DigestParams ==
    {NoDigest, Sha256Hex("s2", GoodAuth)} \cup
    {Sha256Hex("s1", a) : a \in AuthParams \ {NoAuth}}

\* env.CALENDAR_SECRET and env.ENCRYPTION_KEY
Envs ==
    {[secret |-> "s1", key |-> "k1"],
     [secret |-> Absent, key |-> "k1"],
     [secret |-> "s1", key |-> Absent]}

NoRequest == [digest |-> NoDigest, auth |-> NoAuth, env |-> [secret |-> Absent, key |-> Absent]]

\* a digest check that lets everything through
VerifyDigestAlways(digest, secret, encryptedAuth) == TRUE

VerifyDigest(digest, secret, encryptedAuth) == digest = Sha256Hex(secret, encryptedAuth)

\* decryptCredentials: [ok |-> FALSE] stands for its throw
DecryptCredentials(encryptedData, key) ==
    IF encryptedData.parts # 3 THEN [ok |-> FALSE, username |-> "", password |-> ""]
    ELSE IF encryptedData.key # key THEN [ok |-> FALSE, username |-> "", password |-> ""]
    ELSE IF Len(encryptedData.plaintext) < 2
         THEN [ok |-> FALSE, username |-> "", password |-> ""]
    ELSE [ok |-> TRUE, username |-> encryptedData.plaintext[1],
          password |-> encryptedData.plaintext[2]]

\* Strings that meet split(':') are held as the fields the split gives:
\* "pw" is <<"pw">>, "p:q" is <<"p", "q">>, ":" is <<"", "">>.
MaxPwFields == 2

PwAtoms == {"p", "q", ""}
UsernameTexts == {<<"alice">>, <<"bob">>}
PasswordTexts == UNION {[1..n -> PwAtoms] : n \in 1..MaxPwFields}
KeyTexts == {"k1", "k2"}

\* `${username}:${password}`
Plaintext(username, password) == username \o password

\* encryptCredentials: "iv:authTag:ciphertext" of the plaintext under the key
EncryptCredentials(plaintext, key) == Envelope(key, plaintext)

\* no credential pair under way
NoCred ==
    [pc |-> "off", username |-> <<>>, password |-> <<>>, key |-> Absent,
     encrypted |-> NoAuth, out |-> [ok |-> FALSE, username |-> "", password |-> ""]]

\* the checks of handleCalendar before the core is called: the status of the
\* first check that fails, 0 when all pass
Validate(digest, auth, env) ==
    IF digest = NoDigest \/ auth = NoAuth THEN 400
    ELSE IF env.secret = Absent \/ env.key = Absent THEN 500
    ELSE IF ~VerifyDigest(digest, env.secret, auth) THEN 403
    ELSE IF ~DecryptCredentials(auth, env.key).ok THEN 400
    ELSE 0

\* the civil date of the day `days` after 1970-01-01
YearOfEra(doe) == (doe - doe \div 1460 + doe \div 36524 - doe \div 146096) \div 365

DayOfYear(doe, yoe) == doe - (365 * yoe + yoe \div 4 - yoe \div 100)

CivilOf(y, doy, mp) ==
    <<y + (IF mp < 10 THEN 0 ELSE 1),
      IF mp < 10 THEN mp + 3 ELSE mp - 9,
      doy - (153 * mp + 2) \div 5 + 1>>

CivilFromDays(days) ==
    LET z   == days + 719468
        era == z \div 146097
        doe == z - era * 146097
        yoe == YearOfEra(doe)
        doy == DayOfYear(doe, yoe)
    IN  CivilOf(yoe + era * 400, doy, (5 * doy + 2) \div 153)

\* formatDateTime(date): `${year}${month}${day}T${hour}${minute}${second}`,
\* the fields of the date; each is padded to a fixed width, so the text is
\* given by the numbers
FormatDateTime(t) ==
    CivilFromDays(t \div 1440) \o <<"T", (t % 1440) \div 60, t % 60, 0>>

\* `${formatDateTime(startTime)}-${listId}@dsv.su.se`
Uid(schedule) == <<FormatDateTime(schedule.start_time), "-", schedule.list_id, "@dsv.su.se">>

\* generateICS: one VEVENT per schedule, in order
GenerateICS(schedules) ==
    [i \in 1..Len(schedules) |->
        [uid     |-> Uid(schedules[i]),
         dtstart |-> FormatDateTime(schedules[i].start_time),
         dtend   |-> FormatDateTime(schedules[i].end_time),
         summary |-> schedules[i].course,
         list_id |-> schedules[i].list_id]]

\* the locals of a request that has not begun
IdleReq ==
    [pc            |-> "idle",
     request       |-> NoRequest,  \* the digest, auth and env of the request
     status        |-> 0,          \* the response sent (0: none yet)
     content       |-> "none",
     events        |-> <<>>,
     user          |-> "",
     password      |-> "",
     nocache       |-> FALSE,
     useCache      |-> TRUE,       \* useCache of the running handledningLogin
     cookies       |-> EmptyJar,
     cookieHeader  |-> {},         \* the Cookie header of the request in flight
     steps         |-> <<>>,       \* the steps of the running login, as first issued
     found         |-> {},         \* what the running login found in the pages
     setBy         |-> {},         \* hosts whose responses set JSESSIONID in this login
     formAction    |-> <<>>,       \* the action of the form awaiting its response
     postUrl       |-> <<>>,       \* and the URL it was POSTed to
     redirectCount |-> 0,
     hopReqs       |-> 0,          \* requests issued by the running redirect loop
     response      |-> "none",     \* the response the last redirect loop ended with
     jsessionid    |-> 0,
     fetches       |-> 0,          \* schedule fetches issued
     relogins      |-> 0,          \* forced re-logins started
     outcome       |-> "none",     \* how the running / last handledningLogin ended
     exhausted     |-> FALSE,      \* a redirect loop of this login used up its budget
     seen          |-> NoEntry,    \* what the cache lookup of this login read
     seenAt        |-> -1,         \* and when (-1: no lookup)
     firstTok      |-> 0,          \* first session id handed out after this login began
     acquiredAt    |-> -1,         \* when this login extracted its token
     stored        |-> FALSE,      \* this login wrote the cache
     staleSeen     |-> 0,          \* fetched bodies that were the login page
     fetched       |-> <<>>,       \* what each schedule fetch was answered with
     parsed        |-> 0,          \* the fetch whose body cheerio loaded (0: none)
     result        |-> NoResult,
     error         |-> "none"]

VARIABLES
    page,           \* the parsed schedule page
    epc,            \* position of the extraction pass
    minaTiderKeys,  \* Set of date:time keys
    schedules,      \* records pushed by the row loop
    unique,         \* the de-duplicated list returned
    calendar,       \* the VEVENTs generateICS emits for the list returned
    now,            \* the clock
    kv,             \* the KV namespace COOKIE_CACHE, by username
    nextTok,        \* the next session id the portal hands out
    rq,             \* the requests: locals of getPlannedSchedules / handledningLogin
    refreshed,      \* by username: the token of the last forced re-login,
                    \* until another login replaces it
    cr,             \* a credential pair on its way through the envelope
    servers         \* the portal and identity provider the worker talks to:
                    \* "plain" when only the portal sets JSESSIONID, only on
                    \* responses that fetch returns, and form actions are
                    \* relative; "full" without these limits

evars == <<page, epc, minaTiderKeys, schedules, unique, calendar>>
wvars == <<now, kv, nextTok, rq, refreshed, servers>>
cvars == <<cr>>

vars == <<evars, wvars, cvars>>

ExInit ==
    /\ \E n \in 0..MaxRows : page \in Pages(n)
    /\ epc = "scan"
    /\ minaTiderKeys = {}
    /\ schedules = <<>>
    /\ unique = <<>>
    /\ calendar = <<>>
    /\ now = 0
    /\ kv = [u \in Users |-> NoEntry]
    /\ nextTok = 1
    /\ rq = <<>>
    /\ refreshed = [u \in Users |-> NoRefresh]
    /\ servers = "plain"
    /\ cr = NoCred

ExScan ==
    /\ epc = "scan"
    /\ minaTiderKeys' = MinaTiderKeys(page)
    /\ epc' = "rows"
    /\ UNCHANGED <<page, schedules, unique, calendar, wvars, cvars>>

ExRows ==
    /\ epc = "rows"
    /\ schedules' = ParseRows(page, minaTiderKeys)
    /\ epc' = "dedup"
    /\ UNCHANGED <<page, minaTiderKeys, unique, calendar, wvars, cvars>>

ExDedup ==
    /\ epc = "dedup"
    /\ unique' = Deduplicate(schedules)
    /\ epc' = "done"
    /\ UNCHANGED <<page, minaTiderKeys, schedules, calendar, wvars, cvars>>

\* generateICS(schedules) of handleCalendar, on the list returned
ExEmit ==
    /\ epc = "done"
    /\ calendar' = GenerateICS(unique)
    /\ epc' = "emitted"
    /\ UNCHANGED <<page, minaTiderKeys, schedules, unique, wvars, cvars>>

ExNext == ExScan \/ ExRows \/ ExDedup \/ ExEmit

ExtractSpec == ExInit /\ [][ExNext]_vars

(***************************************************************************)
(* The credential envelope: generate_calendar_url encrypts a credential    *)
(* pair, the worker decrypts the envelope under the same key.              *)
(***************************************************************************)
CrInit ==
    /\ cr \in [pc : {"plain"}, username : UsernameTexts, password : PasswordTexts,
                key : KeyTexts, encrypted : {NoAuth}, out : {NoCred.out}]
    /\ page = EmptyPage
    /\ epc = "off"
    /\ minaTiderKeys = {}
    /\ schedules = <<>>
    /\ unique = <<>>
    /\ calendar = <<>>
    /\ now = 0
    /\ kv = [u \in Users |-> NoEntry]
    /\ nextTok = 1
    /\ rq = <<>>
    /\ refreshed = [u \in Users |-> NoRefresh]
    /\ servers = "plain"

\* main of generate_calendar_url: the plaintext and its envelope
CrEncrypt ==
    /\ cr.pc = "plain"
    /\ cr' = [cr EXCEPT !.pc = "encrypted",
                        !.encrypted = EncryptCredentials(
                                          Plaintext(cr.username, cr.password), cr.key)]
    /\ UNCHANGED <<evars, wvars>>

\* decryptCredentials(encryptedAuth, env.ENCRYPTION_KEY) of handleCalendar
CrDecrypt ==
    /\ cr.pc = "encrypted"
    /\ cr' = [cr EXCEPT !.pc = "decrypted",
                        !.out = DecryptCredentials(cr.encrypted, cr.key)]
    /\ UNCHANGED <<evars, wvars>>

CrNext == CrEncrypt \/ CrDecrypt

CredSpec == CrInit /\ [][CrNext]_vars

(***************************************************************************)
(* The credential envelope: generate_calendar_url encrypts a credential    *)
(* pair, the worker decrypts it.                                            *)
(***************************************************************************)


(***************************************************************************)
(* handledningLogin and getPlannedSchedules.                               *)
(***************************************************************************)
\* a lookup made whatever useCache says
LooksUpCacheAlways(useCache) == TRUE

\* line 117: the lookup is made only when useCache is set
LooksUpCache(useCache) == useCache

\* an entry of age exactly CACHE_DURATION still served
CacheHitInclusive(cached, t) ==
    /\ cached.cookie # 0
    /\ (t - cached.timestamp) * 1000 <= CACHE_DURATION * 1000

\* lines 121-124, with the clock in seconds
CacheHit(cached, t) ==
    /\ cached.cookie # 0
    /\ (t - cached.timestamp) * 1000 < CACHE_DURATION * 1000

\* a loop guard that allows one hop too many
LoopContinuesOneMore(redirectCount) == redirectCount <= MAX_REDIRECTS

\* the guard of both redirect loops
LoopContinues(redirectCount) == redirectCount < MAX_REDIRECTS

\* line 377: the cache write is guarded by useCache
StoresToken(useCache) == useCache

\* a test that never recognises the login page
IsLoginPageNever(body) == FALSE

\* line 405
IsLoginPage(body) == body.su /\ body.login

\* what a schedule fetch was answered with
FetchAnswer(ok, body) ==
    IF ~ok THEN "error" ELSE IF body.su /\ body.login THEN "login" ELSE "schedule"

\* a staleness check made on every schedule fetch
ChecksStalenessAlways(fetches) == TRUE

\* the staleness check is made on the first schedule fetch only
ChecksStaleness(fetches) == fetches = 1

\* the Set-Cookie headers a response can carry when tok is the next session
\* id a server hands out
SetCookieFrom(tok) ==
    {NoCookies} \cup
    (IF tok <= MaxTok THEN {[n \in {"JSESSIONID"} |-> tok]} ELSE {})

SetCookieChoices == SetCookieFrom(nextTok)

Sets(set) == "JSESSIONID" \in DOMAIN set

Issued(set) == IF Sets(set) THEN nextTok + 1 ELSE nextTok

\* a fetch with redirect: 'follow': the Set-Cookie headers of the redirect
\* responses it followed (the first of the pair) and of the response it
\* returns (the second)
FollowedChoices ==
    {ms \in SetCookieFrom(nextTok) \X
            (SetCookieFrom(nextTok) \cup SetCookieFrom(nextTok + 1)) :
        /\ Sets(ms[2]) => ms[2]["JSESSIONID"] = Issued(ms[1])
        /\ servers = "plain" => ~Sets(ms[1])}

\* the same for a fetch that the identity provider answers
IdpFollowedChoices ==
    {ms \in FollowedChoices : servers = "plain" => ~Sets(ms[2])}

IssuedFollowing(mid, set) == Issued(mid) + (IF Sets(set) THEN 1 ELSE 0)

\* the hosts of the handshake: handledning.dsv.su.se and idp.it.su.se
Hosts == {"portal", "idp"}

\* the hosts that answer on the walk from the portal to the identity provider
HopHosts == IF servers = "plain" THEN {"portal"} ELSE Hosts

\* one jar for all the requests in flight: the latest value of each name
SharedJar ==
    [n \in CookieNames |->
        LET vals == {rq[o].cookies[n] : o \in DOMAIN rq}
        IN  CHOOSE v \in vals : \A w \in vals : v >= w]

\* the merge into a jar that is shared by the requests
ReceiveShared(q, host, mid, set) ==
    [q EXCEPT !.cookies = MergeCookies(SharedJar, set),
              !.setBy = IF Sets(mid) \/ Sets(set) THEN @ \cup {host} ELSE @]

\* Object.assign(cookies, extractCookies(response)) for the response that
\* fetch returned from host, with Set-Cookie headers set; mid are the headers
\* of the responses fetch followed before it
Receive(q, host, mid, set) ==
    [q EXCEPT !.cookies = MergeCookies(@, set),
              !.setBy = IF Sets(mid) \/ Sets(set) THEN @ \cup {host} ELSE @]

\* buildCookieHeader: the name=value pairs of the jar
BuildCookieHeader(cookies) ==
    {<<n, cookies[n]>> : n \in {m \in CookieNames : cookies[m] # 0}}

\* the action attribute of the first form of a page, as authority and path;
\* NoAction when the page has no form with an action
NoAction == <<>>
RelativeAction == <<"/idp/profile/SAML2/Redirect/SSO">>
AbsoluteAction == <<"https://idp.it.su.se", "/idp/profile/SAML2/Redirect/SSO">>
SamlAction == <<"https://handledning.dsv.su.se", "/Shibboleth.sso/SAML2/POST">>
FormActions ==
    IF servers = "plain" THEN {RelativeAction} ELSE {RelativeAction, AbsoluteAction}

\* a page accepted whatever form it has
NoActionUrlNever(action) == FALSE

\* !actionUrl
NoActionUrl(action) == action = NoAction

\* 'https://idp.it.su.se' + actionUrl
PostUrl(action) == <<"https://idp.it.su.se">> \o action

Throw(q, msg) == [q EXCEPT !.pc = "failed", !.error = msg]

\* handledningLogin throws
ThrowLogin(q, msg) == [Throw(q, msg) EXCEPT !.outcome = "failed"]

\* getPlannedSchedules after handledningLogin returned token: the schedule fetch
FetchWith(q, token, how) ==
    [q EXCEPT !.pc = "fetch", !.jsessionid = token, !.outcome = how,
              !.fetches = @ + 1,
              !.cookieHeader = {<<"JSESSIONID", token>>}]

\* the first request of a step of the login goes out, with the jar attached
Issue(q, stage) ==
    [q EXCEPT !.pc = stage, !.steps = Append(@, stage),
              !.cookieHeader = BuildCookieHeader(q.cookies)]

\* a form is POSTed to the identity provider
Post(q, stage, action) ==
    [Issue(q, stage) EXCEPT !.formAction = action, !.postUrl = PostUrl(action)]

\* handledningLogin is called
BeginLogin(q, useCache) ==
    LET fresh == [q EXCEPT !.useCache = useCache,
                           !.cookies = EmptyJar,
                           !.redirectCount = 0, !.hopReqs = 0, !.response = "none",
                           !.outcome = "none", !.exhausted = FALSE,
                           !.seen = NoEntry, !.seenAt = -1,
                           !.firstTok = nextTok, !.acquiredAt = -1, !.stored = FALSE,
                           !.steps = <<>>, !.found = {}, !.setBy = {},
                           !.formAction = <<>>, !.postUrl = <<>>, !.cookieHeader = {}]
    IN  IF LooksUpCache(useCache) THEN [fresh EXCEPT !.pc = "kvget"]
        ELSE Issue(fresh, "landing")

\* a redirect loop starts: its first request goes out if the guard allows one
EnterLoop(q, where) ==
    Issue([q EXCEPT !.redirectCount = 0, !.response = "none",
                    !.hopReqs = IF LoopContinues(0) THEN 1 ELSE 0,
                    !.formAction = <<>>, !.postUrl = <<>>],
          where)

\* handleCalendar up to its first await of the network or the cache: the
\* error response of a failed check, or the call
\* getPlannedSchedules(kv, username, password, !nocache)
HandleCalendar(digest, auth, env, nocache) ==
    LET arrived == [IdleReq EXCEPT !.request = [digest |-> digest, auth |-> auth, env |-> env]]
        status  == Validate(digest, auth, env)
    IN  IF status # 0
        THEN [arrived EXCEPT !.status = status, !.content = "error"]
        ELSE BeginLogin([arrived EXCEPT
                            !.user = DecryptCredentials(auth, env.key).username,
                            !.password = DecryptCredentials(auth, env.key).password,
                            !.nocache = nocache],
                        ~nocache)

\* handleCalendar serves a request.
\* Under Spec the worker serves one request after another, in the first slot.
Start(r) ==
    /\ r = 1
    /\ \A o \in Reqs : rq[o] = IdleReq
    /\ \E digest \in DigestParams, auth \in AuthParams, env \in Envs, nocache \in BOOLEAN :
          rq' = [rq EXCEPT ![r] = HandleCalendar(digest, auth, env, nocache)]
    /\ UNCHANGED <<now, kv, nextTok, refreshed, servers, evars, cvars>>

\* kv.get returns: lines 119-127
KvGet(r) ==
    /\ rq[r].pc = "kvget"
    /\ LET q == [rq[r] EXCEPT !.seen = kv[rq[r].user], !.seenAt = now]
       IN  rq' = [rq EXCEPT ![r] =
                    IF CacheHit(kv[q.user], now)
                    THEN FetchWith(q, kv[q.user].cookie, "cached")
                    ELSE Issue(q, "landing")]
    /\ UNCHANGED <<now, kv, nextTok, refreshed, servers, evars, cvars>>

\* the landing page arrives: lines 140-167
Landing(r) ==
    /\ rq[r].pc = "landing"
    /\ \E ms \in FollowedChoices, link \in BOOLEAN :
          LET q == Receive(rq[r], "portal", ms[1], ms[2])
          IN  /\ rq' = [rq EXCEPT ![r] =
                          IF ~link
                          THEN ThrowLogin(q, "Could not find Stockholm University login link")
                          ELSE EnterLoop([q EXCEPT !.found = @ \cup {"link"}], "toIdp")]
              /\ nextTok' = IssuedFollowing(ms[1], ms[2])
    /\ UNCHANGED <<now, kv, refreshed, servers, evars, cvars>>

HopKinds == {"redirect", "nolocation", "ok", "error"}

\* one response inside a redirect loop (lines 177-204, 331-366): the locals
\* after it, with pc = "out" when the loop is left
Hop(q, kind, host, set) ==
    LET merged == [Receive(q, host, NoCookies, set) EXCEPT !.response = kind]
        count  == q.redirectCount + 1
    IN  IF kind = "redirect"
        THEN IF LoopContinues(count)
             THEN [merged EXCEPT !.redirectCount = count, !.hopReqs = @ + 1,
                                 !.cookieHeader = BuildCookieHeader(merged.cookies)]
             ELSE [merged EXCEPT !.redirectCount = count, !.pc = "out",
                                 !.exhausted = TRUE]
        ELSE [merged EXCEPT !.pc = "out"]

\* what the parse of a page found, for the record of the login
Found(q, what, action) ==
    [q EXCEPT !.found = IF action # NoAction THEN @ \cup {what} ELSE @]

\* a response of the walk to the identity provider; after the loop the first
\* form is parsed and POSTed: lines 171-246
ToIdp(r) ==
    /\ rq[r].pc = "toIdp"
    /\ \E kind \in HopKinds, host \in HopHosts, set \in SetCookieChoices,
          action \in {NoAction} \cup FormActions :
          LET q == Hop(rq[r], kind, host, set)
          IN  /\ q.pc # "out" => action = NoAction
              /\ ~Sets(set) => host = "portal"
              /\ rq' = [rq EXCEPT ![r] =
                          IF q.pc # "out" THEN q
                          ELSE IF NoActionUrl(action)
                               THEN ThrowLogin(q, "Could not find form action URL")
                               ELSE Post(Found(q, "form1", action), "preauth", action)]
              /\ nextTok' = Issued(set)
    /\ UNCHANGED <<now, kv, refreshed, servers, evars, cvars>>

\* the response to the first form: lines 247-289
PreAuth(r) ==
    /\ rq[r].pc = "preauth"
    /\ \E ms \in IdpFollowedChoices, action \in {NoAction} \cup FormActions :
          LET q == Receive(rq[r], "idp", ms[1], ms[2])
          IN  /\ rq' = [rq EXCEPT ![r] =
                          IF NoActionUrl(action) THEN ThrowLogin(q, "No login form found")
                          ELSE Post(Found(q, "form2", action), "credentials", action)]
              /\ nextTok' = IssuedFollowing(ms[1], ms[2])
    /\ UNCHANGED <<now, kv, refreshed, servers, evars, cvars>>

\* the response to the credentials: lines 291-336
Credentials(r) ==
    /\ rq[r].pc = "credentials"
    /\ \E ok \in BOOLEAN, ms \in IdpFollowedChoices, action \in {NoAction, SamlAction} :
          LET q == Receive(rq[r], "idp", ms[1], ms[2])
          IN  /\ ~ok => ms = <<NoCookies, NoCookies>> /\ action = NoAction
              /\ rq' = [rq EXCEPT ![r] =
                          IF ~ok THEN ThrowLogin(rq[r], "Login failed with status")
                          ELSE IF NoActionUrl(action)
                               THEN ThrowLogin(q, "No SAML response form found")
                               ELSE EnterLoop(Found(q, "form3", action), "assertion")]
              /\ nextTok' = IssuedFollowing(ms[1], ms[2])
    /\ UNCHANGED <<now, kv, refreshed, servers, evars, cvars>>

\* a put that leaves an entry that is there alone
KvPutIfAbsent(store, username, jsessionid, t) ==
    IF store[username] # NoEntry THEN store
    ELSE [store EXCEPT ![username] = [cookie |-> jsessionid, timestamp |-> t]]

\* kv.put(cacheKey, JSON.stringify({cookie, timestamp}), ...): lines 378-382
KvPut(store, username, jsessionid, t) ==
    [store EXCEPT ![username] = [cookie |-> jsessionid, timestamp |-> t]]

\* a response of the loop after the SAML POST; after the loop the token is
\* extracted, cached and used for the schedule fetch: lines 330-396
Assertion(r) ==
    /\ rq[r].pc = "assertion"
    /\ \E kind \in HopKinds, set \in SetCookieChoices :
          LET q == Hop(rq[r], kind, "portal", set)
              jsessionid == q.cookies["JSESSIONID"]
              forced == q.relogins > 0
          IN  /\ nextTok' = Issued(set)
              /\ IF q.pc # "out"
                 THEN /\ rq' = [rq EXCEPT ![r] = q]
                      /\ UNCHANGED <<kv, refreshed>>
                 ELSE IF jsessionid = 0
                 THEN /\ rq' = [rq EXCEPT ![r] =
                                  ThrowLogin(q, "Failed to obtain JSESSIONID cookie")]
                      /\ UNCHANGED <<kv, refreshed>>
                 ELSE /\ rq' = [rq EXCEPT ![r] =
                                  FetchWith([q EXCEPT !.acquiredAt = now,
                                                      !.stored = StoresToken(q.useCache)],
                                            jsessionid, "acquired")]
                      /\ kv' = IF StoresToken(q.useCache)
                               THEN KvPut(kv, q.user, jsessionid, now)
                               ELSE kv
                      /\ refreshed' = [refreshed EXCEPT ![q.user] =
                                         IF forced
                                         THEN [token |-> jsessionid, at |-> now]
                                         ELSE NoRefresh]
    /\ UNCHANGED <<now, servers, evars, cvars>>

\* the schedule page arrives: lines 398-547
Fetch(r) ==
    /\ rq[r].pc = "fetch"
    /\ \E ok \in BOOLEAN, body \in Bodies :
          LET q == [rq[r] EXCEPT !.staleSeen =
                                    IF ok /\ IsLoginPage(body) THEN @ + 1 ELSE @,
                                 !.fetched = Append(@, FetchAnswer(ok, body))]
          IN  /\ ~ok => body = LoginPage
              /\ rq' = [rq EXCEPT ![r] =
                          IF ~ok
                          THEN Throw(q, IF q.fetches = 1
                                        THEN "Failed to fetch schedules"
                                        ELSE "Failed to fetch schedules after re-login")
                          ELSE IF ChecksStaleness(q.fetches) /\ IsLoginPage(body)
                          THEN BeginLogin([q EXCEPT !.relogins = @ + 1], FALSE)
                          ELSE [q EXCEPT !.pc = "done",
                                         !.parsed = q.fetches,
                                         !.result = [ok |-> TRUE,
                                                     records |-> ExtractSchedules(body.page)]]]
    /\ UNCHANGED <<now, kv, nextTok, refreshed, servers, evars, cvars>>

\* a handler that answers a failed call with the calendar of what it has
AnswerAlwaysCalendar(q) ==
    [IdleReq EXCEPT !.request = q.request, !.result = q.result, !.error = q.error,
                    !.status = 200, !.content = "calendar",
                    !.events = GenerateICS(q.result.records)]

\* lines 91-115: the calendar of the list returned, or the 401 of the catch
Answer(q) ==
    IF q.pc = "done"
    THEN [IdleReq EXCEPT !.request = q.request, !.result = q.result, !.error = q.error,
                         !.status = 200, !.content = "calendar",
                         !.events = GenerateICS(q.result.records)]
    ELSE [IdleReq EXCEPT !.request = q.request, !.result = q.result, !.error = q.error,
                         !.status = 401, !.content = "error"]

\* getPlannedSchedules returned or threw: handleCalendar answers
Respond(r) ==
    /\ rq[r].pc \in {"done", "failed"}
    /\ rq' = [rq EXCEPT ![r] = Answer(rq[r])]
    /\ UNCHANGED <<now, kv, nextTok, refreshed, servers, evars, cvars>>

\* the response has gone out: the request and its locals are dropped
Finish(r) ==
    /\ rq[r].pc = "idle"
    /\ rq[r].status # 0
    /\ rq' = [rq EXCEPT ![r] = IdleReq]
    /\ UNCHANGED <<now, kv, nextTok, refreshed, servers, evars, cvars>>

\* time passes
Tick ==
    /\ \E d \in TickSteps :
          /\ now + d <= MaxTime
          /\ now' = now + d
    /\ UNCHANGED <<kv, nextTok, rq, refreshed, servers, evars, cvars>>

\* expirationTtl: KV drops an entry CACHE_DURATION seconds after its put
KvExpire(u) ==
    /\ kv[u] # NoEntry
    /\ now - kv[u].timestamp >= CACHE_DURATION
    /\ kv' = [kv EXCEPT ![u] = NoEntry]
    /\ UNCHANGED <<now, nextTok, rq, refreshed, servers, evars, cvars>>

\* the worker is deployed against servers of the given kind
Boot(kind) ==
    /\ page = EmptyPage
    /\ epc = "off"
    /\ minaTiderKeys = {}
    /\ schedules = <<>>
    /\ unique = <<>>
    /\ calendar = <<>>
    /\ now = 0
    /\ kv = [u \in Users |-> NoEntry]
    /\ nextTok = 1
    /\ rq = [r \in Reqs |-> IdleReq]
    /\ refreshed = [u \in Users |-> NoRefresh]
    /\ servers = kind
    /\ cr = NoCred

Init == Boot("plain")

Step(r) ==
    \/ Start(r)
    \/ KvGet(r)
    \/ Landing(r)
    \/ ToIdp(r)
    \/ PreAuth(r)
    \/ Credentials(r)
    \/ Assertion(r)
    \/ Fetch(r)
    \/ Respond(r)
    \/ Finish(r)

Next ==
    \/ \E r \in Reqs : Step(r)
    \/ Tick
    \/ \E u \in Users : KvExpire(u)

Spec == Init /\ [][Next]_vars

\* every await of a request in flight returns
FairSpec == Spec /\ \A r \in Reqs : WF_vars(Step(r))

\* The login handshake against servers of the full kind, the clock standing
\* still.
LoginInit == Boot("full")

LoginNext == \E r \in Reqs : Step(r)

LoginSpec == LoginInit /\ [][LoginNext]_vars

\* Two requests served interleaved: one arrives while the other awaits the
\* network or the cache.  The requests carry an envelope made by
\* generate_calendar_url, for one identity or for two, and use the cache;
\* the servers are of the plain kind, answer the first request of a redirect
\* loop without a redirect and never answer the schedule fetch with the
\* login page; the clock stands still.
ConcStart(r) ==
    /\ rq[r] = IdleReq
    /\ \E auth \in {GoodAuth, OtherAuth} :
          rq' = [rq EXCEPT ![r] =
                    HandleCalendar(Sha256Hex("s1", auth), auth,
                                   [secret |-> "s1", key |-> "k1"], FALSE)]
    /\ UNCHANGED <<now, kv, nextTok, refreshed, servers, evars, cvars>>

ShortChain(r) == rq[r].redirectCount = 0

NoRelogin(r) == rq[r].relogins = 0

Pair == {r \in Reqs : r <= 2}

ConcStep(r) ==
    \/ ConcStart(r)
    \/ KvGet(r)
    \/ Landing(r)
    \/ ToIdp(r) /\ ShortChain(r)'
    \/ PreAuth(r)
    \/ Credentials(r)
    \/ Assertion(r) /\ ShortChain(r)'
    \/ Fetch(r) /\ NoRelogin(r)'
    \/ Respond(r)
    \/ Finish(r)

ConcNext == \E r \in Pair : ConcStep(r)

ConcSpec == Boot("plain") /\ [][ConcNext]_vars

\* a request with an envelope of the set auths arrives in a free slot and
\* passes the checks of handleCalendar
Arrive(r, auths) ==
    /\ rq[r] = IdleReq
    /\ \E auth \in auths :
          rq' = [rq EXCEPT ![r] =
                    HandleCalendar(Sha256Hex("s1", auth), auth,
                                   [secret |-> "s1", key |-> "k1"], FALSE)]
    /\ UNCHANGED <<now, kv, nextTok, refreshed, servers, evars, cvars>>

\* the steps of a request after its arrival, under the limits of ConcSpec
Served(r) ==
    \/ KvGet(r)
    \/ Landing(r)
    \/ ToIdp(r) /\ ShortChain(r)'
    \/ PreAuth(r)
    \/ Credentials(r)
    \/ Assertion(r) /\ ShortChain(r)'
    \/ Fetch(r) /\ NoRelogin(r)'
    \/ Respond(r)
    \/ Finish(r)

\* Two requests for the same identity, with the same envelope, served
\* interleaved.
TwinStart(r) == Arrive(r, {GoodAuth})

TwinNext == \E r \in Pair : TwinStart(r) \/ Served(r)

TwinSpec == Boot("plain") /\ [][TwinNext]_vars

\* Two requests for the same username served interleaved, with the password
\* of GoodAuth or with another one; the identity provider answers the
\* credentials form with a failure unless the password is that of GoodAuth.
PwStart(r) == Arrive(r, {GoodAuth, StaleAuth})

IdpRefuses(r) == rq[r].password # GoodAuth.plaintext[2] => rq[r].pc = "failed"

PwServed(r) ==
    \/ KvGet(r)
    \/ Landing(r)
    \/ ToIdp(r) /\ ShortChain(r)'
    \/ PreAuth(r)
    \/ Credentials(r) /\ IdpRefuses(r)'
    \/ Assertion(r) /\ ShortChain(r)'
    \/ Fetch(r) /\ NoRelogin(r)'
    \/ Respond(r)
    \/ Finish(r)

PwNext == \E r \in Pair : PwStart(r) \/ PwServed(r)

PwSpec == Boot("plain") /\ [][PwNext]_vars

(***************************************************************************)
(* Claims about the extraction pass (checked under ExtractSpec).           *)
(***************************************************************************)

\* The Mina-Tider key set of the claims: the (date, time range) pairs that a
\* marker row announces after its marker, with the date of the row above it.
MinaPairs ==
    {<<page.rows[i - 1].dateStr, t>> :
        <<i, t>> \in {<<j, u>> \in (2..Len(page.rows)) \X TimeTexts :
                        /\ page.rows[j].kind = "mina"
                        /\ Len(page.rows[j].segs) >= 2
                        /\ page.rows[j - 1].kind = "row"
                        /\ u \in SeqRange(page.rows[j].segs[2])}}

IsScheduleTable == page.header.datum /\ page.header.tid

\* a schedule-table row with a valid date cell and a time cell
DatedRow(j) ==
    /\ j \in 1..Len(page.rows)
    /\ page.rows[j].kind = "row"
    /\ IsDateStr(page.rows[j].dateStr)
    /\ page.rows[j].timeMatch # NoMatch

FullRow(j) == DatedRow(j) /\ page.rows[j].ncells >= 4

InMinaPairs(j) == <<page.rows[j].dateStr, page.rows[j].timeMatch>> \in MinaPairs

SourceRows(recs) == {recs[i].src_row : i \in 1..Len(recs)}

\* row j is in the output, itself or as the first-seen record of its
\* (list_id, start_time, end_time)
InOutput(j) ==
    \E i \in 1..Len(unique) :
        DedupKey(unique[i]) = DedupKey(RowRecord(page.rows[j], j))

\* the rows of the family Elig are output iff their (date, start, end) is a
\* Mina-Tider key, and nothing else is output
FilteredBy(Elig(_)) ==
    /\ epc \in {"dedup", "done"} =>
          SourceRows(schedules) =
              {j \in 1..Len(page.rows) : IsScheduleTable /\ Elig(j) /\ InMinaPairs(j)}
    /\ epc = "done" =>
          /\ SourceRows(unique) \subseteq SourceRows(schedules)
          /\ \A j \in SourceRows(schedules) : InOutput(j)

\* C1 (as claimed): every schedule-table row with a valid YYYY-MM-DD date cell
\* and an H:MM-H:MM time cell is in the output iff its (date, start, end) is
\* in the Mina-Tider key set built from the same page.
C1_AnyDatedRowFilteredByKey == FilteredBy(DatedRow)

\* C1 (amended): every schedule-table row with at least four cells, a valid
\* date cell and a time cell is in the output iff its (date, start, end), as
\* the text of its cells, is in the Mina-Tider key set; rows with the same
\* time range on another date are excluded.
C1_FullRowFilteredByKey == FilteredBy(FullRow)

\* rows 2024-05-01 10:00-11:00 and 2024-05-02 10:00-11:00, Mina tider
\* 10:00-11:00 under the first: exactly the 2024-05-01 record is returned
C1_Witness ==
    /\ epc = "done"
    /\ IsScheduleTable
    /\ Len(page.rows) = 3
    /\ FullRow(1) /\ page.rows[1].dateStr = D1 /\ page.rows[1].timeMatch = T10
    /\ page.rows[2].kind = "mina"
    /\ FullRow(3) /\ page.rows[3].dateStr = D2 /\ page.rows[3].timeMatch = T10
    /\ MinaPairs = {<<D1, T10>>}
    /\ Len(unique) = 1
    /\ unique[1].src_row = 1

\* the positions of recs that hold the first record with their
\* (list_id, start_time, end_time)
FirstSeen(recs) ==
    {i \in 1..Len(recs) :
        \A j \in 1..(i - 1) :
            <<recs[j].list_id, recs[j].start_time, recs[j].end_time>> #
            <<recs[i].list_id, recs[i].start_time, recs[i].end_time>>}

\* C12: the list returned holds no two records with the same (list_id,
\* start_time, end_time); it is the matched rows in page order with, for each
\* such key, exactly the first-seen record kept and every later one dropped.
C12_FirstSeenKeptInOrder ==
    /\ \A i, j \in 1..Len(schedules) : i < j => schedules[i].src_row < schedules[j].src_row
    /\ epc = "done" =>
          /\ \A i, j \in 1..Len(unique) :
                 i # j => <<unique[i].list_id, unique[i].start_time, unique[i].end_time>> #
                          <<unique[j].list_id, unique[j].start_time, unique[j].end_time>>
          /\ Len(unique) = Cardinality(FirstSeen(schedules))
          /\ \A k \in FirstSeen(schedules) :
                 unique[Cardinality({i \in FirstSeen(schedules) : i <= k})] = schedules[k]

\* two matched rows of the same list, date and time: the first is returned
C12_Witness ==
    /\ epc = "done"
    /\ Len(schedules) = 2
    /\ schedules[1].list_id = schedules[2].list_id
    /\ schedules[1].start_time = schedules[2].start_time
    /\ schedules[1].end_time = schedules[2].end_time
    /\ unique = <<schedules[1]>>

\* the time ranges of a marker cell that stand after its first "Mina tider"
AfterMarker(row) == UNION {SeqRange(row.segs[k]) : k \in 2..Len(row.segs)}

\* a marker row below a row that has a date cell
MarkerBelowDate(i) ==
    /\ i \in 2..Len(page.rows)
    /\ page.rows[i].kind = "mina"
    /\ Len(page.rows[i].segs) >= 2
    /\ CellCount(page.rows[i - 1]) >= 3

\* C21: for a marker cell containing 'Mina tider', every H:MM-H:MM time range
\* after the marker token in the cell text is in the Mina-Tider key set with
\* the date of the row above, and no time range before the marker is added.
C21_EveryRangeAfterMarkerIsKey ==
    epc # "scan" =>
        minaTiderKeys =
            {TimeKey(page.rows[i - 1].dateStr, t) :
                <<i, t>> \in {<<j, u>> \in (1..Len(page.rows)) \X TimeTexts :
                                MarkerBelowDate(j) /\ u \in AfterMarker(page.rows[j])}}

\* a schedule row that the row loop skips for its cells: too few of them, a
\* date cell or a time cell that fails its pattern
Skipped(r) ==
    /\ r.kind = "row"
    /\ \/ r.ncells < 4
       \/ ~IsDateStr(r.dateStr)
       \/ r.timeMatch = NoMatch

NotSkipped(r) == ~Skipped(r)

\* the same page with the skipped rows removed
Pruned(p) == [p EXCEPT !.rows = SelectSeq(p.rows, NotSkipped)]

\* the records as returned (without the position of their source row)
Returned(recs) ==
    [i \in 1..Len(recs) |->
        [course |-> recs[i].course, start_time |-> recs[i].start_time,
         end_time |-> recs[i].end_time, location |-> recs[i].location,
         list_id |-> recs[i].list_id, list_type |-> recs[i].list_type]]

\* row j stands immediately above a marker cell
AboveMarker(j) ==
    /\ j < Len(page.rows)
    /\ page.rows[j + 1].kind = "mina"
    /\ Len(page.rows[j + 1].segs) >= 2

SkippedRows == {j \in 1..Len(page.rows) : Skipped(page.rows[j])}

\* C22 (as claimed): a row that fails the date pattern, fails the time
\* pattern or has too few cells is skipped without affecting any other row:
\* the output for the page equals the output for the page without those rows.
C22_SkippedRowsAsIfRemoved ==
    epc = "done" => Returned(unique) = Returned(ExtractSchedules(Pruned(page)))

\* C22 (amended): the same, for pages where no such row stands immediately
\* above a marker cell (a marker cell takes its date from the row above it,
\* skipped or not).
C22_SkippedRowsAsIfRemovedUnlessAboveMarker ==
    (epc = "done" /\ \A j \in SkippedRows : ~AboveMarker(j)) =>
        Returned(unique) = Returned(ExtractSchedules(Pruned(page)))

\* a skipped row, not above a marker, before a row that is returned
C22_Witness ==
    /\ epc = "done"
    /\ \A j \in SkippedRows : ~AboveMarker(j)
    /\ \E j \in SkippedRows : \E i \in 1..Len(unique) : unique[i].src_row > j
    /\ Len(unique) = 1

\* C26: every event of the calendar emitted for the list returned by
\* getPlannedSchedules has a distinct UID: no two records that survive
\* de-duplication by (list_id, start_time, end_time) get the same UID.
C26_UidsAreDistinct ==
    epc = "emitted" =>
        \A i, j \in 1..Len(calendar) : i # j => calendar[i].uid # calendar[j].uid

(***************************************************************************)
(* Claims about the credential envelope (checked under CredSpec).          *)
(***************************************************************************)

\* C24: for every username without ':' and every password, also one that
\* contains ':', decryptCredentials applied to the envelope that
\* encryptCredentials made of 'username:password' under the same key returns
\* exactly that username and that password.
C24_EnvelopeRoundTrip ==
    cr.pc = "decrypted" =>
        /\ cr.out.ok
        /\ <<cr.out.username>> = cr.username
        /\ <<cr.out.password>> = cr.password

(***************************************************************************)
(* Claims about the session cache, the login handshake and the staleness   *)
(* retry (checked under Spec, C4 under FairSpec).                          *)
(***************************************************************************)
InHandshake(r) == rq[r].pc \in {"landing", "toIdp", "preauth", "credentials", "assertion"}
InLoop(r) == rq[r].pc \in {"toIdp", "assertion"}
LookedUp(r) == rq[r].seenAt >= 0
SeenAge(r) == rq[r].seenAt - rq[r].seen.timestamp

\* C2: with the cache in use, the login returns the cached token without a
\* handshake iff an entry exists and is younger than 3600 s; otherwise (no
\* entry, or age >= 3600 s) the handshake runs.
C2_CachedIffYoungerThanTtl ==
    \A r \in Reqs :
        LookedUp(r) =>
            IF rq[r].seen.cookie # 0 /\ SeenAge(r) < 3600
            THEN /\ rq[r].outcome = "cached"
                 /\ rq[r].jsessionid = rq[r].seen.cookie
                 /\ ~InHandshake(r)
            ELSE /\ rq[r].outcome # "cached"
                 /\ rq[r].outcome = "none" => InHandshake(r)
                 /\ rq[r].pc \in {"fetch", "done"} => rq[r].outcome = "acquired"

\* an entry of age exactly 3600 s was read and ignored, and the handshake ran
C2_Witness ==
    \E r \in Reqs :
        /\ LookedUp(r)
        /\ rq[r].seen.cookie # 0
        /\ SeenAge(r) = 3600
        /\ rq[r].outcome = "acquired"
        /\ kv[rq[r].user].cookie = rq[r].jsessionid

\* C3 (as claimed): a login in which a step failed - the redirect budget
\* running out included - writes no cache entry and returns no token.
C3_FailedLoginStoresNothing ==
    \A r \in Reqs :
        (rq[r].exhausted \/ rq[r].outcome = "failed") =>
            ~rq[r].stored /\ rq[r].outcome \notin {"cached", "acquired"}

\* C4: a call makes at most one forced re-login, which bypasses the cache,
\* and at most two schedule fetches; a stale page leads to exactly one
\* re-login; and the call terminates.
C4_OneReloginAndTerminates ==
    /\ [](\A r \in Reqs :
            /\ rq[r].relogins <= 1
            /\ rq[r].fetches <= 2
            /\ rq[r].staleSeen >= 1 => rq[r].relogins = 1
            /\ rq[r].relogins = 1 =>
                  /\ rq[r].staleSeen >= 1
                  /\ ~rq[r].useCache
                  /\ ~LookedUp(r)
                  /\ rq[r].outcome # "cached")
    /\ \A r \in Reqs : (rq[r].pc # "idle") ~> (rq[r].pc \in {"done", "failed"})

\* a call that was stale, logged in again and fetched a second time
C4_Witness ==
    \E r \in Reqs :
        /\ rq[r].relogins = 1
        /\ rq[r].fetches = 2
        /\ rq[r].pc = "done"

\* C5 (as claimed): when the page fetched after the forced re-login is the
\* login page again, the call fails and returns no record list.
C5_SecondStalenessFails ==
    \A r \in Reqs :
        (rq[r].fetches = 2 /\ rq[r].staleSeen = 2) =>
            rq[r].pc = "failed" /\ rq[r].result = NoResult

\* C6 (as claimed): a login in which a redirect loop used up its budget of
\* 10 hops ends in an error: it returns no token and caches nothing.
C6_ExhaustedBudgetFailsLogin ==
    \A r \in Reqs :
        (rq[r].exhausted /\ rq[r].outcome # "none") =>
            /\ rq[r].outcome = "failed"
            /\ rq[r].jsessionid \notin {t \in Tokens : t >= rq[r].firstTok}
            /\ ~rq[r].stored

\* C7: a redirect loop issues at most 10 requests, each after a redirect,
\* and ends at the first response that is no redirect or when the hop
\* counter reaches 10.
C7_LoopWithinBudget ==
    \A r \in Reqs :
        /\ rq[r].hopReqs <= 10
        /\ InLoop(r) =>
              /\ rq[r].response \in {"none", "redirect"}
              /\ rq[r].redirectCount = rq[r].hopReqs - 1
        /\ (~InLoop(r) /\ rq[r].response # "none") =>
              IF rq[r].response = "redirect"
              THEN rq[r].redirectCount = 10 /\ rq[r].hopReqs = 10
              ELSE rq[r].redirectCount = rq[r].hopReqs - 1

\* nine redirects, then a tenth response that is no redirect: the handshake
\* goes on with that response
C7_Witness ==
    \E r \in Reqs :
        /\ rq[r].pc = "preauth"
        /\ rq[r].redirectCount = 9
        /\ rq[r].hopReqs = 10
        /\ rq[r].response = "ok"
        /\ ~rq[r].exhausted

\* C8: with the cache bypassed the login makes no lookup and never returns
\* a cached token; the token it returns, used for the schedule fetch, is
\* one handed out during this handshake.
C8_ForceFreshBypassesLookup ==
    \A r \in Reqs :
        (rq[r].pc # "idle" /\ ~rq[r].useCache) =>
            /\ ~LookedUp(r)
            /\ rq[r].pc # "kvget"
            /\ rq[r].outcome # "cached"
            /\ rq[r].pc \in {"fetch", "done"} =>
                  /\ rq[r].outcome = "acquired"
                  /\ rq[r].jsessionid = rq[r].cookies["JSESSIONID"]
                  /\ rq[r].jsessionid >= rq[r].firstTok

\* a nocache request fetches with a new token while the cache holds a
\* younger-than-TTL entry with another token
C8_Witness ==
    \E r \in Reqs :
        /\ rq[r].nocache
        /\ rq[r].pc = "fetch"
        /\ rq[r].fetches = 1
        /\ kv[rq[r].user].cookie # 0
        /\ now - kv[rq[r].user].timestamp < 3600
        /\ rq[r].jsessionid # kv[rq[r].user].cookie

\* C9 (as claimed): when a login with the cache bypassed returns a token,
\* the cache entry of that username holds the token and its acquisition time.
C9_ForceFreshStores ==
    \A r \in Reqs :
        (/\ ~rq[r].useCache
         /\ rq[r].outcome = "acquired"
         /\ rq[r].pc = "fetch"
         /\ now = rq[r].acquiredAt) =>
            kv[rq[r].user] = [cookie |-> rq[r].jsessionid,
                              timestamp |-> rq[r].acquiredAt]

\* C10 (as claimed): after a stale cached token was replaced by a forced
\* re-login, the next request of that username within the TTL gets the new
\* token from the cache.
C10_CacheRefreshedAfterStaleness ==
    \A r \in Reqs :
        (/\ rq[r].pc = "fetch"
         /\ rq[r].fetches = 1
         /\ ~rq[r].nocache
         /\ refreshed[rq[r].user].token # 0
         /\ rq[r].seenAt - refreshed[rq[r].user].at < 3600) =>
            /\ rq[r].outcome = "cached"
            /\ rq[r].jsessionid = refreshed[rq[r].user].token

\* the records of the page a fetch was answered with
RecordsOf(answer) ==
    IF answer = "schedule" THEN ExtractSchedules(SamplePage) ELSE <<>>

\* C14: a first schedule body that is the login page is staleness, neither
\* data nor a hard error: it is never parsed, the forced re-login follows,
\* and the records returned are those of the page fetched after it; a
\* non-success status on either fetch is a hard error with no re-login.
C14_LoginPageIsStaleness ==
    \A r \in Reqs :
        LET f == rq[r].fetched
        IN  /\ (Len(f) >= 1 /\ f[1] = "login") =>
                  /\ rq[r].relogins = 1
                  /\ rq[r].parsed # 1
                  /\ rq[r].pc = "done" =>
                        /\ Len(f) = 2
                        /\ rq[r].parsed = 2
                        /\ rq[r].result.records = RecordsOf(f[2])
                  /\ rq[r].pc = "failed" =>
                        rq[r].outcome = "failed" \/ (Len(f) = 2 /\ f[2] = "error")
            /\ (Len(f) >= 1 /\ f[1] = "schedule") =>
                  /\ rq[r].relogins = 0
                  /\ rq[r].pc = "done"
                  /\ rq[r].parsed = 1
                  /\ rq[r].result.records = RecordsOf(f[1])
            /\ \A i \in 1..Len(f) :
                  f[i] = "error" =>
                      /\ i = Len(f)
                      /\ rq[r].pc = "failed"
                      /\ rq[r].relogins = i - 1
                      /\ rq[r].parsed = 0
                      /\ rq[r].result = NoResult

\* the login page came first, the schedule after the re-login: its records
\* are returned
C14_Witness ==
    \E r \in Reqs :
        /\ rq[r].pc = "done"
        /\ rq[r].fetched = <<"login", "schedule">>
        /\ rq[r].parsed = 2
        /\ Len(rq[r].result.records) = 1

(***************************************************************************)
(* Claims about the HTTP boundary (checked under Spec).                    *)
(***************************************************************************)
\* a response has been sent for the request held in slot r
Answered(r) == rq[r].pc = "idle" /\ rq[r].status # 0

\* getPlannedSchedules was called for the request held in slot r
CoreInvoked(r) == rq[r].pc # "idle" \/ (Answered(r) /\ rq[r].status \in {200, 401})

MissingParameter(req) == req.digest = NoDigest \/ req.auth = NoAuth
MissingSecret(req) == req.env.secret = "" \/ req.env.key = ""
DigestMatches(req) == req.digest = <<"sha256", req.env.secret, req.auth>>
Decryptable(req) ==
    /\ req.auth.parts = 3
    /\ req.auth.key = req.env.key
    /\ Len(req.auth.plaintext) >= 2

\* C11: the core is invoked only for a request whose digest equals the hash
\* of secret+auth and whose auth decrypts; a request with a missing
\* parameter, a missing server secret, a wrong digest or an undecryptable
\* auth is answered 400, 500, 403, 400 (the first of these that applies) and
\* reaches neither the cache nor the network.
C11_CoreOnlyAfterBothChecks ==
    \A r \in Reqs :
        LET req == rq[r].request
        IN  /\ CoreInvoked(r) =>
                  /\ ~MissingParameter(req)
                  /\ ~MissingSecret(req)
                  /\ DigestMatches(req)
                  /\ Decryptable(req)
                  /\ rq[r].pc # "idle" => rq[r].user = req.auth.plaintext[1]
            /\ Answered(r) =>
                  rq[r].status =
                     IF MissingParameter(req) THEN 400
                     ELSE IF MissingSecret(req) THEN 500
                     ELSE IF ~DigestMatches(req) THEN 403
                     ELSE IF ~Decryptable(req) THEN 400
                     ELSE rq[r].status
            /\ (Answered(r) /\ ~CoreInvoked(r)) =>
                  /\ rq[r].content = "error"
                  /\ ~LookedUp(r)
                  /\ rq[r].fetches = 0
                  /\ rq[r].hopReqs = 0
                  /\ rq[r].firstTok = 0

\* a request whose auth decrypts but whose digest was made with another
\* secret is answered 403
C11_Witness ==
    \E r \in Reqs :
        /\ Answered(r)
        /\ rq[r].status = 403
        /\ rq[r].request.auth = GoodAuth
        /\ rq[r].request.env = [secret |-> "s1", key |-> "k1"]

\* C13: an error thrown by the login or by the extraction is answered with
\* the 401 error response and never with a calendar; calendar content is
\* sent only for a call that returned its list, and carries that list; a
\* call that fails holds no list.
C13_FailureIsNeverACalendar ==
    \A r \in Reqs :
        /\ rq[r].pc = "failed" => rq[r].error # "none" /\ rq[r].result = NoResult
        /\ rq[r].pc = "done" => rq[r].error = "none" /\ rq[r].result.ok
        /\ (Answered(r) /\ CoreInvoked(r)) =>
              /\ rq[r].error # "none" =>
                    /\ rq[r].status = 401
                    /\ rq[r].content = "error"
                    /\ rq[r].events = <<>>
                    /\ rq[r].result = NoResult
              /\ rq[r].content = "calendar" =>
                    /\ rq[r].status = 200
                    /\ rq[r].error = "none"
                    /\ rq[r].result.ok
                    /\ rq[r].events = GenerateICS(rq[r].result.records)
              /\ rq[r].content \in {"calendar", "error"}
              /\ rq[r].error = "none" => rq[r].content = "calendar"

\* a login succeeded, the schedule fetch failed, and 401 was answered
C13_Witness ==
    \E r \in Reqs :
        /\ Answered(r)
        /\ rq[r].status = 401
        /\ rq[r].error = "Failed to fetch schedules"
        /\ rq[r].events = <<>>

(***************************************************************************)
(* Claims about the steps of the login and its cookie jar (checked under   *)
(* LoginSpec, C17 under Spec).                                             *)
(***************************************************************************)
StepOrder == <<"landing", "toIdp", "preauth", "credentials", "assertion">>

IsPrefix(a, b) == Len(a) <= Len(b) /\ \A i \in 1..Len(a) : a[i] = b[i]

\* what the pages must have yielded before the first request of a step
NeededFor(stage) ==
    CASE stage = "landing"     -> {}
      [] stage = "toIdp"       -> {"link"}
      [] stage = "preauth"     -> {"link", "form1"}
      [] stage = "credentials" -> {"link", "form1", "form2"}
      [] stage = "assertion"   -> {"link", "form1", "form2", "form3"}

\* the steps a login has issued when it throws msg
StepsBefore(msg) ==
    CASE msg = "Could not find Stockholm University login link" -> 1
      [] msg = "Could not find form action URL"                  -> 2
      [] msg = "No login form found"                             -> 3
      [] msg = "Login failed with status"                        -> 4
      [] msg = "No SAML response form found"                     -> 4
      [] msg = "Failed to obtain JSESSIONID cookie"              -> 5

\* C15: a login issues its requests in the order landing GET, redirect GETs
\* to the identity provider, pre-auth POST, credentials POST, assertion POST
\* and redirect GETs, each after the response to the one before; a step
\* that fails ends the login with no request of a later step, and the
\* password is sent only after the link and the first two forms were found.
C15_StepsInOrder ==
    \A r \in Reqs :
        LET steps == rq[r].steps
        IN  /\ IsPrefix(steps, StepOrder)
            /\ InHandshake(r) => steps # <<>> /\ rq[r].pc = steps[Len(steps)]
            /\ \A i \in 1..Len(steps) : NeededFor(steps[i]) \subseteq rq[r].found
            /\ (rq[r].pc = "failed" /\ rq[r].outcome = "failed") =>
                  Len(steps) = StepsBefore(rq[r].error)
            /\ rq[r].outcome = "acquired" => steps = StepOrder
            /\ rq[r].outcome = "cached" => steps = <<>>

\* the page after the pre-auth POST has no form: the login ends there and
\* the credentials are never sent
C15_Witness ==
    \E r \in Reqs :
        /\ rq[r].pc = "failed"
        /\ rq[r].error = "No login form found"
        /\ rq[r].steps = <<"landing", "toIdp", "preauth">>
        /\ rq[r].found = {"link", "form1"}

\* C16 (as claimed): every cookie set by a response received during a login,
\* the redirect responses that fetch follows included, is in the jar
\* afterwards and is attached to the requests that follow.
C16_JarHoldsEveryCookieSet ==
    \A r \in Reqs :
        (InHandshake(r) /\ rq[r].setBy # {}) =>
            /\ rq[r].cookies["JSESSIONID"] # 0
            /\ <<"JSESSIONID", rq[r].cookies["JSESSIONID"]>> \in rq[r].cookieHeader

\* C17: while a login runs, a cookie name that is in the jar stays in the
\* jar; a response may replace its value.
C17_JarNamesOnlyGrow ==
    [][\A r \in Reqs :
          InHandshake(r) =>
              \A n \in CookieNames : rq[r].cookies[n] # 0 => rq'[r].cookies[n] # 0]_vars

\* the jar held the first session id of this login and now holds the second
C17_Witness ==
    \E r \in Reqs :
        /\ InHandshake(r)
        /\ servers = "plain"
        /\ rq[r].firstTok = 1
        /\ rq[r].cookies["JSESSIONID"] = 2

\* C19 (as claimed): a login returns and caches a token only when a response
\* of the portal set JSESSIONID during it; a cookie of that name set by the
\* identity provider alone leaves the login failed.
C19_TokenIsPortalCookie ==
    \A r \in Reqs :
        (rq[r].outcome = "acquired" \/ rq[r].stored) => "portal" \in rq[r].setBy

\* C20 (as claimed): the pre-auth and credentials forms are POSTed to the
\* declared action: joined to the authority of the identity provider when
\* relative, unchanged when absolute.
C20_PostsToDeclaredAction ==
    \A r \in Reqs :
        rq[r].pc \in {"preauth", "credentials"} =>
            rq[r].postUrl =
                IF Len(rq[r].formAction) = 1
                THEN <<"https://idp.it.su.se">> \o rq[r].formAction
                ELSE rq[r].formAction

(***************************************************************************)
(* Claims about interleaved requests (checked under ConcSpec, C23 under    *)
(* TwinSpec).                                                               *)
(***************************************************************************)

\* the login of request r ends by writing the cache in this step
Stores(r) == ~rq[r].stored /\ rq'[r].stored

\* C23: no single flight.  Two concurrent requests for the same identity can
\* both miss the cache and both run a login of their own (C23_Witness); each
\* request uses the token it acquired itself, the tokens of two logins
\* differ, and the cache entry holds the token of whichever login stored
\* last: every store overwrites the entry with the token of the login that
\* stores, and nothing else changes the entry.
C23_NoSingleFlightLastStoreWins ==
    [][/\ \A r \in Reqs :
            /\ rq'[r].outcome = "acquired" =>
                   /\ rq'[r].jsessionid # 0
                   /\ rq'[r].jsessionid = rq'[r].cookies["JSESSIONID"]
            /\ Stores(r) => kv'[rq'[r].user].cookie = rq'[r].jsessionid
       /\ \A a, b \in Reqs :
            (a # b /\ rq'[a].outcome = "acquired" /\ rq'[b].outcome = "acquired")
                => rq'[a].jsessionid # rq'[b].jsessionid
       /\ kv' # kv => \E r \in Reqs : Stores(r)]_vars

\* both requests, for alice, missed the cache, ran a login each and stored;
\* both have their schedule; the entry holds the token of the first slot
C23_Witness ==
    /\ \A r \in Pair :
          /\ rq[r].user = "alice"
          /\ rq[r].seenAt >= 0 /\ rq[r].seen = NoEntry
          /\ rq[r].steps = StepOrder
          /\ rq[r].outcome = "acquired" /\ rq[r].stored
          /\ rq[r].pc = "done"
    /\ rq[1].jsessionid # rq[2].jsessionid
    /\ kv["alice"].cookie = rq[1].jsessionid
\* C18: interleaved logins each use a jar of their own: no cookie is in two
\* jars, the Cookie header of a login's request holds the cookies of its own
\* jar only, the token a login returns is the one in its own jar, handed
\* out after it began, and a token of another login is used only when it
\* was read from the session cache.
C18_JarsAreIsolated ==
    \A r \in Reqs :
        /\ \A o \in Reqs \ {r} :
              /\ rq[r].cookies["JSESSIONID"] # 0 =>
                    rq[r].cookies["JSESSIONID"] # rq[o].cookies["JSESSIONID"]
              /\ InHandshake(r) =>
                    \A c \in rq[r].cookieHeader : c[2] # rq[o].cookies[c[1]]
        /\ InHandshake(r) =>
              rq[r].cookieHeader =
                 {<<n, rq[r].cookies[n]>> : n \in {m \in CookieNames : rq[r].cookies[m] # 0}}
        /\ rq[r].outcome = "acquired" =>
              /\ rq[r].jsessionid = rq[r].cookies["JSESSIONID"]
              /\ rq[r].jsessionid >= rq[r].firstTok
        /\ rq[r].outcome = "cached" =>
              /\ rq[r].jsessionid = rq[r].seen.cookie
              /\ rq[r].cookies = EmptyJar

\* two logins in flight at once, for two identities, each with a session
\* id in its jar
C18_Witness ==
    /\ InHandshake(1) /\ InHandshake(2)
    /\ rq[1].user = "alice" /\ rq[2].user = "bob"
    /\ rq[1].cookies["JSESSIONID"] = 2
    /\ rq[2].cookies["JSESSIONID"] = 1

(***************************************************************************)
(* Claims about passwords and the session cache (checked under PwSpec).    *)
(***************************************************************************)

\* the running login of request r has posted its password to the identity
\* provider
Submitted(r) == \E i \in 1..Len(rq[r].steps) : rq[r].steps[i] = "credentials"

\* C25: a cached session token acquired for a username is returned only to
\* requests that carry the password with which it was acquired: a request
\* for the same username with another password never receives the cached
\* token without that password being submitted to the identity provider.
C25_CachedTokenNeedsSamePassword ==
    \A a, b \in Reqs :
        (/\ a # b
         /\ rq[a].outcome = "acquired"
         /\ rq[b].outcome = "cached"
         /\ rq[b].user = rq[a].user
         /\ rq[b].jsessionid = rq[a].jsessionid)
            => (rq[b].password = rq[a].password \/ Submitted(b))
====
